---- MODULE Spec2Model ----
(***************************************************************************)
(* Model of deploy.sh: one run of the deployment script against the cloud  *)
(* control plane.  Every step of the script that makes an external call is *)
(* one action; `set -e` (line 6) is modelled at every unguarded command    *)
(* substitution: a failing aws call there ends the script with the exit    *)
(* status of aws.                                                          *)
(***************************************************************************)
EXTENDS Integers, Sequences, FiniteSets, TLC

VARIABLES
    inv,                 \* the invocation: flags given and environment of the process
    pc,                  \* position of the script
    exitCode,            \* process exit status (meaningful when pc = "done")
    outcome,             \* why the process ended
    lastLog,             \* last log_error / log_warning / log_success of interest
    calls,               \* external calls issued before the polling loop, in order
    AMI_ID, LAUNCH_TEMPLATE_ID, ASG_NAME, WAIT_FOR_COMPLETION, TIMEOUT,
    CALLER_IDENTITY, AMI_STATE,
    CURRENT_VERSION, NEW_VERSION, CURRENT_LT_VERSION, REFRESH_ID,
    START_TIME, ELAPSED_TIME, REFRESH_STATUS,
    latestVersion,       \* platform: highest version number of the launch template
    fleetVersion,        \* platform: the fleet's active launch-template version
    rollouts,            \* platform: number of instance refreshes created
    audit,               \* working directory: the deployment files written
    now,                 \* wall clock, in seconds
    polls,               \* status queries (line 346) issued
    pctQueries,          \* percentage queries (line 352) issued
    scriptPos,           \* how far the polled statuses follow ScriptedStatuses (-1: not)
    failed,              \* positions in calls of the calls that failed
    polledIds,           \* rollout ids passed to describe-instance-refreshes
    otherRefresh,        \* id of the rollout of another run in the same directory (0: none)
    srv,                 \* server.js: state of the listening server
    conns,               \* server.js: open connections
    closeCbs,            \* server.js: callbacks registered with server.close
    signals,             \* server.js: signals the process has received
    accepted,            \* server.js: connections the server has accepted so far
    srvExited,           \* server.js: process.exit was called
    srvExitCode          \* server.js: the code given to process.exit

vars == <<inv, pc, exitCode, outcome, lastLog, calls,
          AMI_ID, LAUNCH_TEMPLATE_ID, ASG_NAME, WAIT_FOR_COMPLETION, TIMEOUT,
          CALLER_IDENTITY, AMI_STATE,
          CURRENT_VERSION, NEW_VERSION, CURRENT_LT_VERSION, REFRESH_ID,
          START_TIME, ELAPSED_TIME, REFRESH_STATUS,
          latestVersion, fleetVersion, rollouts, audit, now,
          polls, pctQueries, scriptPos, failed, polledIds, otherRefresh,
          srv, conns, closeCbs, signals, accepted, srvExited, srvExitCode>>

scriptVars == <<AMI_ID, LAUNCH_TEMPLATE_ID, ASG_NAME, WAIT_FOR_COMPLETION, TIMEOUT>>
platformVars == <<latestVersion, fleetVersion, rollouts>>
pollVars == <<START_TIME, ELAPSED_TIME, REFRESH_STATUS, polls, pctQueries, scriptPos>>
stepVars == <<CALLER_IDENTITY, AMI_STATE, CURRENT_VERSION, NEW_VERSION,
              CURRENT_LT_VERSION, REFRESH_ID>>
serverVars == <<srv, conns, closeCbs, signals, accepted, srvExited, srvExitCode>>
fixedVars == <<inv, otherRefresh, serverVars>>
deployVars == <<inv, pc, exitCode, outcome, lastLog, calls, scriptVars, stepVars,
                platformVars, audit, now, pollVars, failed, polledIds, otherRefresh>>

----------------------------------------------------------------------------
(* Bounds *)

MaxPollDur == 1          \* longest round trip of one describe-instance-refreshes call
MaxQueryTime == 2        \* total time one run spends inside those calls
MaxOtherVersions == 1    \* versions another run may create between read and create
MaxApplications == 2     \* times the same fleet update is applied
MaxConnections == 3      \* connections the server is offered while it runs
MaxSignals == 3          \* SIGTERM / SIGINT signals delivered to the server
InitVersion == 2         \* launch-template versions existing when the run starts
StartEpoch == 1000       \* value of `date +%s` when the run starts

----------------------------------------------------------------------------
(* Program constants *)

DefaultTimeout == 1800
SleepSeconds == 30

TimeoutArgs == {0, 31, 60}

KnownStatuses == {"Pending", "InProgress", "Successful", "Failed", "Cancelled"}
Statuses == KnownStatuses \cup {"Cancelling"}

ScriptedStatuses == <<"Pending", "InProgress", "InProgress", "Successful">>

AwsFailCodes == {254, 255}

\* One invocation of the script: the kind of command line, the values given
\* with -a, -l, -g ("" when the flag is absent), -w, -t, and the environment.
Invocations ==
    { i \in [kind : {"ok", "help", "unknown", "novalue"},
             a : {"", "ami-1"}, l : {"", "lt-1"}, g : {"", "asg-1"},
             w : BOOLEAN, hasT : BOOLEAN, t : TimeoutArgs,
             envLT : {"", "lt-env"}, envASG : {"", "asg-env"},
             deps : BOOLEAN] :
        /\ (~i.hasT => i.t = 0)
        /\ (i.envLT # "" => i.l = "")
        /\ (i.envASG # "" => i.g = "")
        /\ (i.kind # "ok" => ~i.w /\ ~i.hasT /\ i.deps) }

----------------------------------------------------------------------------

Init ==
    /\ inv \in Invocations
    /\ pc = "parse"
    /\ exitCode = 0
    /\ outcome = "running"
    /\ lastLog = ""
    /\ calls = <<>>
    /\ AMI_ID = ""
    /\ LAUNCH_TEMPLATE_ID = ""
    /\ ASG_NAME = ""
    /\ WAIT_FOR_COMPLETION = FALSE
    /\ TIMEOUT = DefaultTimeout
    /\ CALLER_IDENTITY = ""
    /\ AMI_STATE = ""
    /\ CURRENT_VERSION = 0
    /\ NEW_VERSION = 0
    /\ CURRENT_LT_VERSION = 0
    /\ REFRESH_ID = 0
    /\ START_TIME = 0
    /\ ELAPSED_TIME = 0
    /\ REFRESH_STATUS = ""
    /\ latestVersion = InitVersion
    /\ fleetVersion \in 1..InitVersion
    /\ rollouts = 0
    /\ audit = {}
    /\ now = StartEpoch
    /\ polls = 0
    /\ pctQueries = 0
    /\ scriptPos = 0
    /\ failed = {}
    /\ polledIds = {}
    /\ otherRefresh = 0
    /\ srv = "listening"
    /\ conns = 0
    /\ closeCbs = 0
    /\ signals = <<>>
    /\ accepted = 0
    /\ srvExited = FALSE
    /\ srvExitCode = 0

\* exit N
Exit(code, why, msg) ==
    /\ pc' = "done"
    /\ exitCode' = code
    /\ outcome' = why
    /\ lastLog' = msg

AbortSetE_Retries(rc) == UNCHANGED <<pc, exitCode, outcome, lastLog>>

\* set -e: a command substitution whose aws call fails ends the script with
\* the exit status of aws, before the statement after it runs.
AbortSetE(rc) ==
    /\ pc' = "done"
    /\ exitCode' = rc
    /\ outcome' = "aborted"
    /\ UNCHANGED lastLog

\* Record that the call being issued (the next entry of calls) failed
\* Number of times the script has issued the given aws call
CallCount(call) == Cardinality({i \in 1..Len(calls) : calls[i] = call})

FailedAt(isFailure) == IF isFailure THEN failed \cup {Len(calls) + 1} ELSE failed

Goto(next) ==
    /\ pc' = next
    /\ UNCHANGED <<exitCode, outcome>>

\* ${VAR:-$VAR}: the value of VAR itself, whether or not it is empty
EnvFallback(current, fromEnv) == IF current # "" THEN current ELSE current

\* Lines 32-40 and 80-128: defaults, option parsing and the fallback lines.
ParseArgs ==
    /\ pc = "parse"
    /\ UNCHANGED <<fixedVars, polledIds, calls, failed, stepVars, platformVars, audit, now, pollVars>>
    /\ CASE inv.kind = "help" ->
              /\ Exit(0, "help", "")
              /\ UNCHANGED scriptVars
         [] inv.kind = "unknown" ->
              /\ Exit(1, "usage", "Unknown option")
              /\ UNCHANGED scriptVars
         [] inv.kind = "novalue" ->
              \* shift 2 with one argument left fails; set -e ends the script
              /\ AbortSetE(1)
              /\ UNCHANGED scriptVars
         [] OTHER ->
              /\ AMI_ID' = inv.a
              /\ LAUNCH_TEMPLATE_ID' = EnvFallback(inv.l, inv.envLT)
              /\ ASG_NAME' = EnvFallback(inv.g, inv.envASG)
              /\ WAIT_FOR_COMPLETION' = inv.w
              /\ TIMEOUT' = IF inv.hasT THEN inv.t ELSE DefaultTimeout
              /\ Goto("validate")
              /\ UNCHANGED lastLog

MissingParameter_FleetNotChecked(ami, template, asg) ==
    IF ami = "" THEN "AMI ID is required"
    ELSE IF template = "" THEN "Launch Template ID is required"
    ELSE ""

\* Lines 131, 137 and 143: the three -z tests, in this order; the message of
\* the first that holds, "" when none does
MissingParameter(ami, template, asg) ==
    IF ami = "" THEN "AMI ID is required"
    ELSE IF template = "" THEN "Launch Template ID is required"
    ELSE IF asg = "" THEN "Auto Scaling Group name is required"
    ELSE ""

\* Lines 130-147
Validate ==
    /\ pc = "validate"
    /\ UNCHANGED <<fixedVars, polledIds, calls, failed, scriptVars, stepVars, platformVars, audit, now, pollVars>>
    /\ LET missing == MissingParameter(AMI_ID, LAUNCH_TEMPLATE_ID, ASG_NAME) IN
         IF missing # "" THEN Exit(1, "usage", missing)
         ELSE Goto("deps") /\ UNCHANGED lastLog

\* Lines 150-166 and 182: check_dependencies
CheckDependencies ==
    /\ pc = "deps"
    /\ UNCHANGED <<fixedVars, polledIds, calls, failed, scriptVars, stepVars, platformVars, audit, now, pollVars>>
    /\ IF ~inv.deps THEN Exit(1, "deps", "Missing required dependencies")
       ELSE Goto("identity") /\ UNCHANGED lastLog

\* Lines 184-187: aws sts get-caller-identity ... || echo "Unable to get caller identity"
GetCallerIdentity ==
    /\ pc = "identity"
    /\ calls' = Append(calls, "get-caller-identity")
    /\ \E ok \in BOOLEAN :
          /\ CALLER_IDENTITY' = IF ok THEN "arn" ELSE "Unable to get caller identity"
          /\ failed' = FailedAt(~ok)
    /\ Goto("ami")
    /\ UNCHANGED <<fixedVars, polledIds, lastLog, scriptVars, AMI_STATE, CURRENT_VERSION, NEW_VERSION,
                   CURRENT_LT_VERSION, REFRESH_ID, platformVars, audit, now, pollVars>>

AmiReady_AcceptsPending(state) == state # "null"

\* Line 196: the test on AMI_STATE
AmiReady(state) == state = "available"

\* Lines 189-200: aws ec2 describe-images ... || echo "null"
VerifyAmi ==
    /\ pc = "ami"
    /\ calls' = Append(calls, "describe-images")
    /\ \E state \in {"available", "pending", "null"} :
          /\ AMI_STATE' = state
          /\ failed' = FailedAt(state # "available")
          /\ IF AmiReady(state) THEN Goto("template") /\ UNCHANGED lastLog
             ELSE Exit(1, "image", "AMI is not available")
    /\ UNCHANGED <<fixedVars, polledIds, scriptVars, CALLER_IDENTITY, CURRENT_VERSION, NEW_VERSION,
                   CURRENT_LT_VERSION, REFRESH_ID, platformVars, audit, now, pollVars>>

\* Lines 202-214: aws ec2 describe-launch-templates ... || echo "null"
VerifyLaunchTemplate ==
    /\ pc = "template"
    /\ calls' = Append(calls, "describe-launch-templates")
    /\ \E name \in {"tmpl", "null"} :
          /\ failed' = FailedAt(name = "null")
          /\ IF name = "null" THEN Exit(1, "access", "Cannot access launch template")
             ELSE Goto("asg") /\ UNCHANGED lastLog
    /\ UNCHANGED <<fixedVars, polledIds, scriptVars, stepVars, platformVars, audit, now, pollVars>>

AsgAccessible_NotNull(exists, name) == exists # "null"

\* Line 223: the test on ASG_EXISTS
AsgAccessible(exists, name) == exists = name

\* Lines 216-228: aws autoscaling describe-auto-scaling-groups ... || echo "null";
\* the output is the group's name, "None" when no such group is listed, or
\* "null" when the call failed.
VerifyAsg ==
    /\ pc = "asg"
    /\ calls' = Append(calls, "describe-auto-scaling-groups")
    /\ \E exists \in {ASG_NAME, "None", "null"} :
          /\ failed' = FailedAt(exists # ASG_NAME)
          /\ IF AsgAccessible(exists, ASG_NAME) THEN Goto("read_version") /\ UNCHANGED lastLog
             ELSE Exit(1, "access", "Cannot access Auto Scaling Group")
    /\ UNCHANGED <<fixedVars, polledIds, scriptVars, stepVars, platformVars, audit, now, pollVars>>

\* Lines 230-241: aws ec2 describe-launch-template-versions, element [0] of the
\* list the platform returns: one of the existing versions.  0 stands for the
\* output "None".
ReadVersion ==
    /\ pc = "read_version"
    /\ calls' = Append(calls, "describe-launch-template-versions")
    /\ \/ /\ \E rc \in AwsFailCodes : AbortSetE(rc)
          /\ failed' = FailedAt(TRUE)
          /\ UNCHANGED CURRENT_VERSION
       \/ /\ CURRENT_VERSION' = 0
          /\ failed' = FailedAt(TRUE)
          /\ Exit(1, "read", "Failed to get current launch template version")
       \/ \E v \in 1..latestVersion :
             /\ CURRENT_VERSION' = v
             /\ Goto("create_version")
             /\ UNCHANGED <<lastLog, failed>>
    /\ UNCHANGED <<fixedVars, polledIds, scriptVars, CALLER_IDENTITY, AMI_STATE, NEW_VERSION,
                   CURRENT_LT_VERSION, REFRESH_ID, platformVars, audit, now, pollVars>>

\* Platform: create-launch-template-version numbers the new version one above
\* the template's latest version.
AssignedVersion(latest) == latest + 1

CapturedVersion_Source(created, source) == source

\* Lines 247-249: of the call's reply the script keeps
\* LaunchTemplateVersion.VersionNumber, the number of the version created from
\* --source-version.
CapturedVersion(created, source) == created

\* Lines 243-263: NEW_VERSION=$(aws ec2 create-launch-template-version ... 2>&1).
\* The branch at 252-257 is never entered: set -e ends the script at line 245.
CreateVersion ==
    /\ pc = "create_version"
    /\ calls' = Append(calls, "create-launch-template-version")
    /\ \/ /\ \E rc \in AwsFailCodes : AbortSetE(rc)
          /\ failed' = FailedAt(TRUE)
          /\ UNCHANGED <<NEW_VERSION, latestVersion>>
       \/ /\ NEW_VERSION' = 0
          /\ failed' = FailedAt(TRUE)
          /\ Exit(1, "create", "Invalid launch template version returned")
          /\ UNCHANGED latestVersion
       \/ /\ latestVersion' = AssignedVersion(latestVersion)
          /\ NEW_VERSION' = CapturedVersion(latestVersion', CURRENT_VERSION)
          /\ Goto("update_asg")
          /\ lastLog' = "Created new launch template version"
          /\ UNCHANGED failed
    /\ UNCHANGED <<fixedVars, polledIds, scriptVars, CALLER_IDENTITY, AMI_STATE, CURRENT_VERSION,
                   CURRENT_LT_VERSION, REFRESH_ID, fleetVersion, rollouts, audit,
                   now, pollVars>>

\* Platform: another run creates a version of the same template between this
\* run's read of the current version and its creation call.
OtherRunCreatesVersion ==
    /\ pc = "create_version"
    /\ latestVersion < InitVersion + MaxOtherVersions
    /\ latestVersion' = AssignedVersion(latestVersion)
    /\ UNCHANGED <<fixedVars, polledIds, pc, exitCode, outcome, lastLog, calls, failed, scriptVars,
                   stepVars, fleetVersion, rollouts, audit, now, pollVars>>

CallSucceeded_ThrottlingTolerated(rc) == rc # 254

CallSucceeded_Unchecked(rc) == TRUE

\* Lines 6 and 267: the script goes on after the call only when its exit
\* status is 0
CallSucceeded(rc) == rc = 0

RequestedVersion_Latest(newVersion, latest) == latest

\* Line 269: --launch-template "LaunchTemplateId=...,Version=$NEW_VERSION",
\* the version the fleet is pointed at (an explicit number, not $Latest)
RequestedVersion(newVersion, latest) == newVersion

\* Lines 265-281: UPDATE_RESULT=$(aws autoscaling update-auto-scaling-group ... 2>&1).
\* The branch at 271-280 is never entered: set -e ends the script at line 267.
UpdateAsg ==
    /\ pc = "update_asg"
    /\ calls' = Append(calls, "update-auto-scaling-group")
    /\ \E rc \in {0} \cup AwsFailCodes :
          /\ fleetVersion' = IF rc = 0 THEN RequestedVersion(NEW_VERSION, latestVersion)
                                       ELSE fleetVersion
          /\ failed' = FailedAt(rc # 0)
          /\ IF CallSucceeded(rc)
               THEN Goto("verify_update")
                      /\ lastLog' = "Auto Scaling Group updated successfully"
               ELSE AbortSetE(rc)
    /\ UNCHANGED <<fixedVars, polledIds, scriptVars, stepVars, latestVersion, rollouts, audit, now, pollVars>>

VerificationResult_MismatchAborts(actual, expected) ==
    IF actual # expected THEN "abort" ELSE "ok"

\* Lines 290-295: what the script does with the version read back
VerificationResult(actual, expected) ==
    IF actual # expected THEN "warn" ELSE "ok"

\* Lines 283-295: read-after-write check.  The version reported is the fleet's
\* pointer at the time of the read, which another actor may have moved since
\* the update.
VerifyUpdate ==
    /\ pc = "verify_update"
    /\ calls' = Append(calls, "describe-auto-scaling-groups")
    /\ \/ /\ \E rc \in AwsFailCodes : AbortSetE(rc)
          /\ failed' = FailedAt(TRUE)
          /\ UNCHANGED <<CURRENT_LT_VERSION, fleetVersion>>
       \/ \E v \in {NEW_VERSION, CURRENT_VERSION} :
             /\ fleetVersion' = v
             /\ CURRENT_LT_VERSION' = v
             /\ CASE VerificationResult(v, NEW_VERSION) = "ok" ->
                       Goto("start_refresh") /\ lastLog' = "ASG successfully updated"
                  [] VerificationResult(v, NEW_VERSION) = "warn" ->
                       /\ Goto("start_refresh")
                       /\ lastLog' = "ASG launch template version mismatch"
                  [] OTHER ->
                       Exit(1, "verify", "ASG launch template version mismatch")
             /\ UNCHANGED failed
    /\ UNCHANGED <<fixedVars, polledIds, scriptVars, CALLER_IDENTITY, AMI_STATE, CURRENT_VERSION,
                   NEW_VERSION, REFRESH_ID, latestVersion, rollouts, audit, now, pollVars>>

\* Lines 297-314: REFRESH_ID=$(aws autoscaling start-instance-refresh ...).
\* 0 stands for an empty or "null" output.
StartRefresh ==
    /\ pc = "start_refresh"
    /\ calls' = Append(calls, "start-instance-refresh")
    /\ \/ /\ \E rc \in AwsFailCodes : AbortSetE(rc)
          /\ failed' = FailedAt(TRUE)
          /\ UNCHANGED <<REFRESH_ID, rollouts>>
       \/ /\ REFRESH_ID' = 0
          /\ failed' = FailedAt(TRUE)
          /\ Exit(1, "refresh", "Failed to start instance refresh")
          /\ UNCHANGED rollouts
       \/ /\ rollouts' = rollouts + 1
          /\ REFRESH_ID' = rollouts'
          /\ Goto("save")
          /\ lastLog' = "Instance refresh started"
          /\ UNCHANGED failed
    /\ UNCHANGED <<fixedVars, polledIds, scriptVars, CALLER_IDENTITY, AMI_STATE, CURRENT_VERSION,
                   NEW_VERSION, CURRENT_LT_VERSION, latestVersion, fleetVersion,
                   audit, now, pollVars>>

WaitRequested_Always(flag) == TRUE

\* Line 333: [[ "$WAIT_FOR_COMPLETION" == "true" ]]
WaitRequested(flag) == flag = TRUE

DeploymentRecord_VersionAsId(file, refreshId, amiId, newVersion, templateId, asgName) ==
    [file |-> file, REFRESH_ID |-> newVersion, AMI_ID |-> amiId,
     NEW_VERSION |-> newVersion, LAUNCH_TEMPLATE_ID |-> templateId, ASG_NAME |-> asgName]

\* Lines 317-328: the deployment file, named after the second it is written in
DeploymentRecord(file, refreshId, amiId, newVersion, templateId, asgName) ==
    [file |-> file, REFRESH_ID |-> refreshId, AMI_ID |-> amiId,
     NEW_VERSION |-> newVersion, LAUNCH_TEMPLATE_ID |-> templateId, ASG_NAME |-> asgName]

\* Line 318: cat > "$DEPLOYMENT_FILE" replaces a file of the same name
WriteFile(dir, record) == {f \in dir : f.file # record.file} \cup {record}

\* Lines 316-336: write the deployment file, then enter the polling loop when
\* --wait was given (START_TIME=$(date +%s)).
SaveDeploymentInfo ==
    /\ pc = "save"
    /\ audit' = WriteFile(audit, DeploymentRecord(now, REFRESH_ID, AMI_ID, NEW_VERSION,
                                                  LAUNCH_TEMPLATE_ID, ASG_NAME))
    /\ lastLog' = "Deployment information saved"
    /\ IF WaitRequested(WAIT_FOR_COMPLETION)
         THEN START_TIME' = now /\ Goto("loop_top")
         ELSE UNCHANGED START_TIME /\ Goto("summary")
    /\ UNCHANGED <<fixedVars, polledIds, calls, failed, scriptVars, stepVars, platformVars, now,
                   ELAPSED_TIME, REFRESH_STATUS, polls, pctQueries, scriptPos>>

\* Line 339
Elapsed(current, start) == current - start

BudgetExhausted_ZeroUnlimited(elapsed, timeout) == timeout > 0 /\ elapsed >= timeout

BudgetExhausted_Strict(elapsed, timeout) == elapsed > timeout

\* Line 341
BudgetExhausted(elapsed, timeout) == elapsed >= timeout

TimeoutCalls_CancelsRollout == <<"cancel-instance-refresh">>

\* Lines 341-344: the aws calls made when the budget is exhausted: none, the
\* script logs the error and exits
TimeoutCalls == <<>>

\* Lines 337-344: top of the loop, the only place the budget is checked
LoopTop ==
    /\ pc = "loop_top"
    /\ ELAPSED_TIME' = Elapsed(now, START_TIME)
    /\ IF BudgetExhausted(ELAPSED_TIME', TIMEOUT)
         THEN /\ Exit(1, "timeout", "Timeout reached waiting for instance refresh completion")
              /\ calls' = calls \o TimeoutCalls
         ELSE Goto("query_status") /\ UNCHANGED <<lastLog, calls>>
    /\ UNCHANGED <<fixedVars, polledIds, failed, scriptVars, stepVars, platformVars, audit, now,
                   START_TIME, REFRESH_STATUS, polls, pctQueries, scriptPos>>

\* Time the run has spent inside describe-instance-refreshes calls: the time
\* since the loop started that was not spent in one of the sleeps.
QueryTime(sleepsDone) == now - START_TIME - SleepSeconds * sleepsDone

\* Lines 346-350: the status poll; the platform may report any status
QueryStatus ==
    /\ pc = "query_status"
    /\ polls' = polls + 1
    /\ \E d \in 0..MaxPollDur :
          /\ QueryTime(polls) + d <= MaxQueryTime
          /\ now' = now + d
    /\ \/ /\ \E rc \in AwsFailCodes : AbortSetE(rc)
          /\ UNCHANGED <<REFRESH_STATUS, scriptPos>>
       \/ \E s \in Statuses :
             /\ REFRESH_STATUS' = s
             /\ scriptPos' =
                  IF scriptPos = Len(ScriptedStatuses) THEN scriptPos
                  ELSE IF scriptPos = polls /\ s = ScriptedStatuses[polls + 1]
                         THEN scriptPos + 1
                         ELSE -1
             /\ Goto("query_pct")
             /\ UNCHANGED lastLog
    /\ polledIds' = polledIds \cup {REFRESH_ID}
    /\ UNCHANGED <<fixedVars, calls, failed, scriptVars, stepVars,
                   platformVars, audit, START_TIME, ELAPSED_TIME, pctQueries>>

\* Lines 352-358: the percentage query of the same iteration
QueryPercentage ==
    /\ pc = "query_pct"
    /\ pctQueries' = pctQueries + 1
    /\ \E d \in 0..MaxPollDur :
          /\ QueryTime(polls - 1) + d <= MaxQueryTime
          /\ now' = now + d
    /\ \/ \E rc \in AwsFailCodes : AbortSetE(rc)
       \/ Goto("case") /\ UNCHANGED lastLog
    /\ UNCHANGED <<fixedVars, polledIds, calls, failed, scriptVars, stepVars, platformVars, audit,
                   START_TIME, ELAPSED_TIME, REFRESH_STATUS, polls, scriptPos>>

Disposition_CancelledBreaks(status) ==
    CASE status \in {"Successful", "Cancelled"} -> "break"
      [] status = "Failed" -> "fail"
      [] status \in {"InProgress", "Pending"} -> "sleep"
      [] OTHER -> "warn_sleep"

Disposition_SuccessfulContinues(status) ==
    CASE status \in {"Failed", "Cancelled"} -> "fail"
      [] status \in {"InProgress", "Pending", "Successful"} -> "sleep"
      [] OTHER -> "warn_sleep"

Disposition_UnknownFails(status) ==
    CASE status = "Successful" -> "break"
      [] status \in {"InProgress", "Pending"} -> "sleep"
      [] OTHER -> "fail"

\* Lines 360-376: the branch of the case statement a status selects
Disposition(status) ==
    CASE status = "Successful" -> "break"
      [] status \in {"Failed", "Cancelled"} -> "fail"
      [] status \in {"InProgress", "Pending"} -> "sleep"
      [] OTHER -> "warn_sleep"

SleepInterval_Backoff(pollsSoFar, status) == SleepSeconds * pollsSoFar

\* Lines 370 and 374: sleep 30, in both branches that continue the loop
SleepInterval(pollsSoFar, status) == SleepSeconds

\* Lines 360-377: the case statement, with the sleep of the branches that
\* continue the loop
CaseStatus ==
    /\ pc = "case"
    /\ LET d == Disposition(REFRESH_STATUS) IN
         CASE d = "break" ->
                /\ Goto("summary")
                /\ lastLog' = "Instance refresh completed successfully!"
                /\ UNCHANGED now
           [] d = "fail" ->
                /\ Exit(1, "rollout_failed", REFRESH_STATUS)
                /\ UNCHANGED now
           [] d = "sleep" ->
                /\ now' = now + SleepInterval(polls, REFRESH_STATUS)
                /\ Goto("loop_top")
                /\ UNCHANGED lastLog
           [] OTHER ->
                /\ now' = now + SleepInterval(polls, REFRESH_STATUS)
                /\ Goto("loop_top")
                /\ lastLog' = "Unknown refresh status"
    /\ UNCHANGED <<fixedVars, polledIds, calls, failed, scriptVars, stepVars, platformVars, audit, pollVars>>

\* Lines 380-413: final report; the script ends with status 0
Summary ==
    /\ pc = "summary"
    /\ Exit(0, "success", "Deployment completed successfully!")
    /\ UNCHANGED <<fixedVars, polledIds, calls, failed, scriptVars, stepVars, platformVars, audit, now, pollVars>>

Next ==
    \/ ParseArgs
    \/ Validate
    \/ CheckDependencies
    \/ GetCallerIdentity
    \/ VerifyAmi
    \/ VerifyLaunchTemplate
    \/ VerifyAsg
    \/ ReadVersion
    \/ CreateVersion
    \/ OtherRunCreatesVersion
    \/ UpdateAsg
    \/ VerifyUpdate
    \/ StartRefresh
    \/ SaveDeploymentInfo
    \/ LoopTop
    \/ QueryStatus
    \/ QueryPercentage
    \/ CaseStatus
    \/ Summary

Spec == Init /\ [][Next]_vars

----------------------------------------------------------------------------
(* The run in its environment: the fleet update applied again with the same
   arguments, other runs of the script against the same template or in the
   same working directory *)

\* Lines 267-269 executed again with the same $ASG_NAME, $LAUNCH_TEMPLATE_ID
\* and $NEW_VERSION, right after their first execution succeeded.
ReapplyFleetUpdate ==
    /\ pc = "verify_update"
    /\ CallCount("update-auto-scaling-group") < MaxApplications
    /\ calls' = Append(calls, "update-auto-scaling-group")
    /\ \E rc \in {0} \cup AwsFailCodes :
          /\ fleetVersion' = IF rc = 0 THEN RequestedVersion(NEW_VERSION, latestVersion)
                                       ELSE fleetVersion
          /\ failed' = FailedAt(rc # 0)
    /\ UNCHANGED <<fixedVars, polledIds, pc, exitCode, outcome, lastLog, scriptVars, stepVars,
                   latestVersion, rollouts, audit, now, pollVars>>

\* Platform: another run creates a version of the same template after this
\* run has pointed the fleet at its own version (lines 245-250 of that run).
OtherRunCreatesVersionLater ==
    /\ pc = "verify_update"
    /\ latestVersion < NEW_VERSION + MaxOtherVersions
    /\ latestVersion' = AssignedVersion(latestVersion)
    /\ UNCHANGED <<fixedVars, polledIds, pc, exitCode, outcome, lastLog, calls, failed, scriptVars,
                   stepVars, fleetVersion, rollouts, audit, now, pollVars>>

\* Lines 299-308 of another run: the rollout it started for another fleet
OtherRunRefreshId == -1

\* Lines 316-330 executed by another run of the script in the same working
\* directory, for another fleet: it writes its deployment file under the name
\* made of the current second.
OtherRunSavesDeploymentInfo ==
    /\ pc \in {"save", "loop_top", "summary"}
    /\ otherRefresh = 0
    /\ otherRefresh' = OtherRunRefreshId
    /\ audit' = WriteFile(audit, DeploymentRecord(now, OtherRunRefreshId, "ami-2", 1,
                                                  "lt-2", "asg-2"))
    /\ UNCHANGED <<inv, serverVars, polledIds, pc, exitCode, outcome, lastLog, calls, failed,
                   scriptVars, stepVars, platformVars, now, pollVars>>

NextShared ==
    \/ Next
    \/ ReapplyFleetUpdate
    \/ OtherRunCreatesVersionLater
    \/ OtherRunSavesDeploymentInfo

\* Complete command lines with a short --timeout: the runs that reach the
\* fleet update and the deployment file
SharedInvocations ==
    { i \in Invocations :
        /\ i.kind = "ok" /\ i.deps
        /\ i.a # "" /\ i.l # "" /\ i.g # ""
        /\ i.envLT = "" /\ i.envASG = ""
        /\ i.hasT /\ i.t \in {0, 31} }

InitShared == Init /\ inv \in SharedInvocations

SpecShared == InitShared /\ [][NextShared]_vars

----------------------------------------------------------------------------
(* server.js: the listening server and its shutdown handlers *)

ShutdownSignals == {"SIGTERM", "SIGINT"}

\* server.js line 143: the listening server accepts a connection
Connect ==
    /\ ~srvExited
    /\ srv = "listening"
    /\ accepted < MaxConnections
    /\ conns' = conns + 1
    /\ accepted' = accepted + 1
    /\ UNCHANGED <<deployVars, srv, closeCbs, signals, srvExited, srvExitCode>>

\* server.js line 143: a connection of the server ends
Disconnect ==
    /\ ~srvExited
    /\ conns > 0
    /\ conns' = conns - 1
    /\ UNCHANGED <<deployVars, srv, closeCbs, signals, accepted, srvExited, srvExitCode>>

\* server.close(): a listening server stops listening; a server that is not
\* listening stays as it is
CloseServer(state) == IF state = "listening" THEN "closing" ELSE state

HandlerExits_AtOnce(sig) == TRUE

\* server.js lines 127-141: neither handler calls process.exit itself, the
\* call is inside the callback given to server.close
HandlerExits(sig) == FALSE

\* server.js lines 127-141: the SIGTERM and SIGINT handlers, the same code
\* twice: log, then server.close(callback)
Signal(sig) ==
    /\ ~srvExited
    /\ Len(signals) < MaxSignals
    /\ signals' = Append(signals, sig)
    /\ srv' = CloseServer(srv)
    /\ closeCbs' = closeCbs + 1
    /\ IF HandlerExits(sig)
         THEN srvExited' = TRUE /\ srvExitCode' = 0
         ELSE UNCHANGED <<srvExited, srvExitCode>>
    /\ UNCHANGED <<deployVars, conns, accepted>>

\* server.close(): the server is closed once it has stopped listening and
\* its connections have ended
ServerClosed ==
    /\ ~srvExited
    /\ srv = "closing"
    /\ conns = 0
    /\ srv' = "closed"
    /\ UNCHANGED <<deployVars, conns, closeCbs, signals, accepted, srvExited, srvExitCode>>

\* server.js lines 129-132 and 137-140: the callback given to server.close,
\* run when the server has closed: log, then process.exit(0)
CloseCallback ==
    /\ ~srvExited
    /\ srv = "closed"
    /\ closeCbs > 0
    /\ closeCbs' = closeCbs - 1
    /\ srvExited' = TRUE
    /\ srvExitCode' = 0
    /\ UNCHANGED <<deployVars, srv, conns, signals, accepted>>

NextServer ==
    \/ Connect
    \/ Disconnect
    \/ \E sig \in ShutdownSignals : Signal(sig)
    \/ ServerClosed
    \/ CloseCallback

\* The server alone: the deployment script is not running
InitServer ==
    /\ Init
    /\ inv.kind = "help"
    /\ inv.a = "" /\ inv.l = "" /\ inv.g = ""
    /\ inv.envLT = "" /\ inv.envASG = ""
    /\ fleetVersion = InitVersion

\* The event loop of Node runs a callback that is ready to run
SpecServer == InitServer /\ [][NextServer]_vars /\ WF_vars(CloseCallback)

----------------------------------------------------------------------------
(* Properties *)

LoopEnded == START_TIME # 0 /\ pc \in {"summary", "done"}

FailureStatuses == {"Failed", "Cancelled"}

MutatingCalls == {"create-launch-template-version", "update-auto-scaling-group",
                  "start-instance-refresh"}

\* C1 (as stated): whatever the statuses, the polling loop ends no later than
\* TIMEOUT seconds after it started, and a run that ends on the budget ends
\* with exit code 1.
C1_EndsWithinTimeout ==
    LoopEnded =>
        /\ now - START_TIME <= TIMEOUT
        /\ (outcome = "timeout" => exitCode = 1)

\* C1 (amended): the loop ends at the first budget check that finds
\* ELAPSED_TIME >= TIMEOUT, with the timeout error and exit code 1; as the
\* check is made only at the top of an iteration, the loop ends less than one
\* sleep plus the two queries of an iteration after TIMEOUT, and at most
\* ceil(TIMEOUT / 30) polls are made.
C1_EndsWithinOneIterationOfTimeout ==
    /\ LoopEnded => now - START_TIME < TIMEOUT + SleepSeconds + 2 * MaxPollDur
    /\ outcome = "timeout" =>
          /\ exitCode = 1
          /\ ELAPSED_TIME >= TIMEOUT
          /\ lastLog = "Timeout reached waiting for instance refresh completion"
    /\ pc = "query_status" => ELAPSED_TIME < TIMEOUT
    /\ polls > 0 => SleepSeconds * (polls - 1) < TIMEOUT

C1_Witness == outcome = "timeout" /\ now - START_TIME > TIMEOUT /\ polls > 1

\* C2: once a status poll has returned Failed or Cancelled, no further status
\* query is issued, and the process ends with exit code 1 after reporting the
\* rollout failure with that status.
C2_FailureReportedAndExitOne ==
    [][ ((pc = "query_pct" \/ pc = "case") /\ REFRESH_STATUS \in FailureStatuses) =>
            /\ polls' = polls
            /\ (pc' = "done" =>
                   /\ exitCode' = 1
                   /\ outcome' = "rollout_failed"
                   /\ lastLog' = REFRESH_STATUS) ]_vars

\* C3: when the polls return Pending, InProgress, InProgress, Successful under
\* the default timeout, exactly 4 polls are made and the run ends with the
\* success report and exit code 0.
C3_ScriptedSequenceFourPolls ==
    (scriptPos = Len(ScriptedStatuses) /\ TIMEOUT = DefaultTimeout) =>
        /\ polls = 4
        /\ pc \in {"query_pct", "case", "summary", "done"}
        /\ (pc = "done" /\ outcome # "aborted") => (exitCode = 0 /\ outcome = "success")

C3_Witness ==
    /\ scriptPos = Len(ScriptedStatuses)
    /\ pc = "done"
    /\ exitCode = 0
    /\ polls = 4

\* C4: a polled status outside the five known ones never ends the run: the
\* script logs the warning, sleeps and goes back to the top of the loop; a run
\* whose last polled status is unknown has ended only on the timeout (or on a
\* query that returned no status at all).
C4_UnknownStatusNotTerminal ==
    /\ [][ (pc = "case" /\ REFRESH_STATUS \notin KnownStatuses) =>
              /\ pc' = "loop_top"
              /\ outcome' = "running"
              /\ lastLog' = "Unknown refresh status"
              /\ now' = now + SleepSeconds ]_vars
    /\ []( (pc = "done" /\ polls > 0 /\ REFRESH_STATUS \notin KnownStatuses)
              => outcome \in {"timeout", "aborted"} )

C4_Witness ==
    /\ lastLog = "Unknown refresh status"
    /\ pc = "query_pct"
    /\ REFRESH_STATUS \in FailureStatuses

\* C5: when the image's reported state is not available, the run has ended
\* with exit code 1 without issuing a version-creation, fleet-update or
\* rollout-creation call.
C5_ImageNotReadyAborts ==
    AMI_STATE \notin {"", "available"} =>
        /\ pc = "done"
        /\ exitCode = 1
        /\ \A i \in 1..Len(calls) : calls[i] \notin MutatingCalls
        /\ NEW_VERSION = 0
        /\ rollouts = 0

C5_Witness == AMI_STATE = "pending" /\ pc = "done" /\ Len(calls) = 2

\* C6: a version number obtained from a successful creation is strictly
\* greater than the version read just before, also when another run created
\* versions in between.
C6_NewVersionGreater == NEW_VERSION # 0 => NEW_VERSION > CURRENT_VERSION

C6_Witness ==
    /\ NEW_VERSION = InitVersion + MaxOtherVersions + 1
    /\ CURRENT_VERSION = InitVersion

\* C7: every failing outcome ends the process with exit code 1.
C7_FailureExitsOne ==
    (pc = "done" /\ outcome \notin {"success", "help"}) => exitCode = 1

\* C8: without the wait flag the rollout is never polled and a run that
\* created the rollout exits 0; with the wait flag exit code 0 is reached only
\* through the success report of the loop.
C8_NoWaitNoPoll ==
    /\ (polls > 0 \/ pctQueries > 0 \/ START_TIME # 0) => WAIT_FOR_COMPLETION
    /\ (pc = "done" /\ ~WAIT_FOR_COMPLETION /\ REFRESH_ID # 0) =>
          (exitCode = 0 /\ outcome = "success")
    /\ (pc = "summary" /\ WAIT_FOR_COMPLETION) =>
          (lastLog = "Instance refresh completed successfully!"
             /\ REFRESH_STATUS = "Successful")
    /\ (pc = "done" /\ WAIT_FOR_COMPLETION /\ exitCode = 0) =>
          (outcome = "success" /\ REFRESH_STATUS = "Successful")

C8_Witness ==
    /\ pc = "done"
    /\ ~WAIT_FOR_COMPLETION
    /\ REFRESH_ID # 0
    /\ exitCode = 0
    /\ polls = 0

\* C9: when -l is absent and LAUNCH_TEMPLATE_ID is set in the environment, the
\* run uses that value as the template id and passes the required-parameter
\* validation; likewise for -g and ASG_NAME.
C9_EnvironmentFallback ==
    (inv.kind = "ok" /\ pc # "parse") =>
        /\ (inv.l = "" /\ inv.envLT # "") => LAUNCH_TEMPLATE_ID = inv.envLT
        /\ (inv.g = "" /\ inv.envASG # "") => ASG_NAME = inv.envASG
        /\ (inv.a # "" /\ (inv.l # "" \/ inv.envLT # "") /\ (inv.g # "" \/ inv.envASG # ""))
              => outcome # "usage"

DependencyFailureAborts ==
    (~inv.deps /\ pc \notin {"parse", "validate", "deps"}) => (pc = "done" /\ calls = <<>>)

\* C10 (as stated): after a failed dependency check, identity check, access
\* check, version read, version creation, fleet update or rollout creation no
\* later external call is issued.
C10_EveryFailureAborts ==
    /\ DependencyFailureAborts
    /\ \A i \in failed : i = Len(calls) /\ pc = "done" /\ polls = 0

\* C10 (amended): the same, except that a failed identity check does not
\* abort the run.
C10_FailureAbortsExceptIdentity ==
    /\ DependencyFailureAborts
    /\ \A i \in failed :
          calls[i] # "get-caller-identity" =>
              (i = Len(calls) /\ pc = "done" /\ polls = 0 /\ audit = {})

C10_Witness ==
    /\ pc = "done"
    /\ \E i \in failed : calls[i] = "update-auto-scaling-group"
    /\ \E i \in failed : calls[i] = "get-caller-identity"

Issued(call) == \E i \in 1..Len(calls) : calls[i] = call

CallFailed(call) == \E i \in failed : calls[i] = call

VersionMismatch == CURRENT_LT_VERSION # 0 /\ CURRENT_LT_VERSION # NEW_VERSION

\* C11: when the read-after-write check reports a version other than
\* NEW_VERSION the script only logs the warning: it goes on to start the
\* rollout, writes the deployment file, and can end with exit code 0.
C11_MismatchOnlyWarns ==
    /\ [][ (pc = "verify_update" /\ CURRENT_LT_VERSION' \notin {0, NEW_VERSION}) =>
              /\ pc' = "start_refresh"
              /\ outcome' = "running"
              /\ lastLog' = "ASG launch template version mismatch" ]_vars
    /\ []( (VersionMismatch /\ pc = "done") => Issued("start-instance-refresh") )
    /\ []( (VersionMismatch /\ REFRESH_ID # 0 /\ pc \notin {"start_refresh", "save"})
              => audit # {} )

C11_Witness ==
    /\ VersionMismatch
    /\ pc = "done"
    /\ exitCode = 0
    /\ rollouts = 1
    /\ audit # {}

\* C12: creating the version does not touch the fleet, and a version is never
\* removed; when the fleet update call fails after the version was created,
\* the run ends with a non-zero status, the version still exists, the fleet's
\* pointer is unchanged, no rollout is started and no deployment file written.
C12_VersionKeptFleetUntouched ==
    /\ [][ pc = "create_version" => fleetVersion' = fleetVersion ]_vars
    /\ [][ latestVersion' >= latestVersion ]_vars
    /\ [][ (pc = "update_asg" /\ Len(calls') \in failed') =>
              /\ fleetVersion' = fleetVersion
              /\ pc' = "done"
              /\ exitCode' # 0 ]_vars
    /\ []( CallFailed("update-auto-scaling-group") =>
              /\ pc = "done"
              /\ exitCode # 0
              /\ NEW_VERSION # 0
              /\ latestVersion >= NEW_VERSION
              /\ rollouts = 0
              /\ ~Issued("start-instance-refresh")
              /\ audit = {} )

C12_Witness ==
    /\ CallFailed("update-auto-scaling-group")
    /\ pc = "done"
    /\ latestVersion = NEW_VERSION
    /\ fleetVersion # NEW_VERSION

\* C14: the REFRESH_ID in the deployment file is the id the platform gave
\* to the rollout this run created, and every status poll asks for that id.
C14_AuditIdIsRolloutId ==
    /\ \A f \in audit : f.REFRESH_ID = REFRESH_ID /\ f.REFRESH_ID = rollouts /\ rollouts # 0
    /\ \A id \in polledIds : id = rollouts /\ (\A f \in audit : f.REFRESH_ID = id)
    /\ polls > 0 => (polledIds # {} /\ audit # {})

C14_Witness ==
    /\ audit # {}
    /\ polls >= 2
    /\ polledIds = {REFRESH_ID}
    /\ pc = "done"

\* C16: from the creation of the rollout to the end of the process the
\* script issues no further call that changes the rollout, the fleet or the
\* launch template (in particular no cancel): on timeout the rollout is left
\* as it is.
C16_ReadOnlyAfterRolloutCreation ==
    /\ [][ REFRESH_ID # 0 =>
              /\ calls' = calls
              /\ latestVersion' = latestVersion
              /\ fleetVersion' = fleetVersion
              /\ rollouts' = rollouts ]_vars
    /\ []( ~Issued("cancel-instance-refresh") )
    /\ []( outcome = "timeout" =>
              (rollouts = 1 /\ calls[Len(calls)] = "start-instance-refresh") )

C16_Witness ==
    /\ outcome = "timeout"
    /\ polls >= 1
    /\ rollouts = 1
    /\ REFRESH_STATUS = "InProgress"

\* C17: in one run the version-creation call, the fleet-update call and the
\* rollout-creation call are each issued at most once, whatever their outcome.
C17_MutatingCallsAtMostOnce == \A c \in MutatingCalls : CallCount(c) <= 1

C17_Witness ==
    /\ \A c \in MutatingCalls : CallCount(c) = 1
    /\ polls >= 2
    /\ pc = "done"

PermissionDiagnostics == {"Failed to create new launch template version",
                          "Failed to update Auto Scaling Group",
                          "Invalid launch template version returned"}

\* C18: a run that ends because the version-creation call or the fleet-update
\* call failed has logged the error message of that step before exiting.
C18_FailureIsLogged ==
    ( /\ pc = "done"
      /\ Len(calls) \in failed
      /\ calls[Len(calls)] \in {"create-launch-template-version",
                                "update-auto-scaling-group"} )
        => lastLog \in PermissionDiagnostics

\* C20: after a poll that returned Pending, InProgress or an unknown status
\* the script sleeps exactly 30 seconds, whatever the status and however many
\* polls were made, and goes back to the top of the loop, where the next
\* poll follows unless the budget is exhausted.
C20_FixedSleepInterval ==
    /\ [][ (pc = "case" /\ REFRESH_STATUS \notin {"Successful", "Failed", "Cancelled"}) =>
              (now' = now + SleepSeconds /\ pc' = "loop_top") ]_vars
    /\ [][ pc = "loop_top" =>
              /\ now' = now
              /\ pc' = "query_status" \/ (pc' = "done" /\ outcome' = "timeout") ]_vars
    /\ []( pc = "query_status" =>
              /\ ELAPSED_TIME >= SleepSeconds * polls
              /\ ELAPSED_TIME <= (SleepSeconds + 2 * MaxPollDur) * polls )

C20_Witness ==
    /\ pc = "query_status"
    /\ polls = 3
    /\ REFRESH_STATUS = "Cancelling"
    /\ ELAPSED_TIME = 3 * SleepSeconds

ReapplyStep ==
    /\ CallCount("update-auto-scaling-group") >= 1
    /\ calls' = Append(calls, "update-auto-scaling-group")
    /\ failed' = failed

OwnFileSaved == REFRESH_ID # 0 /\ pc # "save"

\* C15: every run that has written its deployment file keeps a file of its
\* own: this run's file and the other run's file are both in the directory,
\* each with the rollout id of its run.
C15_AuditFileNeverOverwritten ==
    /\ OwnFileSaved => \E f \in audit : f.REFRESH_ID = REFRESH_ID
    /\ otherRefresh # 0 => \E f \in audit : f.REFRESH_ID = otherRefresh

\* C19: after SIGTERM or SIGINT the server accepts no new connection; the
\* process exits only with the server closed and a close callback run, with
\* code 0; and once the server has closed the process does exit.
C19_GracefulShutdown ==
    /\ [][ signals # <<>> => (accepted' = accepted /\ conns' <= conns) ]_vars
    /\ []( (signals # <<>>) <=> (srv # "listening") )
    /\ []( srvExited =>
              /\ srv = "closed"
              /\ srvExitCode = 0
              /\ closeCbs < Len(signals) )
    /\ (srv = "closed") ~> srvExited

C19_Witness ==
    /\ srvExited
    /\ srvExitCode = 0
    /\ srv = "closed"
    /\ Len(signals) = 2
    /\ signals[1] = "SIGINT"
    /\ signals[2] = "SIGTERM"
    /\ accepted = 2
    /\ conns = 0

\* C21: a run in wait mode ends with the success report and exit code 0 only
\* after a poll of its own rollout returned Successful; a run that ended on
\* the timeout, on Failed or Cancelled, or on a failed query has a non-zero
\* exit code, and an unknown status never leads to the success report.
C21_SuccessOnlyAfterSuccessfulPoll ==
    /\ (WAIT_FOR_COMPLETION /\ pc \in {"summary", "done"} /\ (pc = "done" => exitCode = 0)) =>
           /\ REFRESH_STATUS = "Successful"
           /\ polls >= 1
           /\ polledIds = {REFRESH_ID}
           /\ REFRESH_ID = rollouts
           /\ REFRESH_ID # 0
           /\ (pc = "done" => outcome = "success")
    /\ outcome \in {"timeout", "rollout_failed", "aborted"} => exitCode # 0
    /\ (START_TIME # 0 /\ REFRESH_STATUS # "Successful" /\ pc = "done") => exitCode # 0

C21_Witness ==
    /\ WAIT_FOR_COMPLETION
    /\ pc = "done"
    /\ exitCode = 0
    /\ outcome = "success"
    /\ polls = 2
    /\ REFRESH_STATUS = "Successful"

\* C22: at the top of an iteration with the elapsed time at least TIMEOUT
\* the script exits 1 as a timeout without another status query, whatever the
\* rollout's status would be; a query is issued only from a loop top where the
\* budget was not exhausted; with TIMEOUT = 0 the run makes no poll at all.
C22_TimeoutCheckPrecedesPoll ==
    /\ [][ (pc = "loop_top" /\ Elapsed(now, START_TIME) >= TIMEOUT) =>
              /\ pc' = "done"
              /\ exitCode' = 1
              /\ outcome' = "timeout"
              /\ polls' = polls
              /\ pctQueries' = pctQueries
              /\ REFRESH_STATUS' = REFRESH_STATUS ]_vars
    /\ [][ polls' # polls => (pc = "query_status" /\ ELAPSED_TIME < TIMEOUT) ]_vars
    /\ []( pc = "query_status" => ELAPSED_TIME < TIMEOUT )
    /\ []( (pc # "parse" /\ TIMEOUT = 0) => (polls = 0 /\ pctQueries = 0) )
    /\ []( (LoopEnded /\ TIMEOUT = 0) => (outcome = "timeout" /\ exitCode = 1) )

C22_Witness ==
    /\ TIMEOUT = 0
    /\ WAIT_FOR_COMPLETION
    /\ outcome = "timeout"
    /\ exitCode = 1
    /\ polls = 0
    /\ REFRESH_ID # 0

\* The first call was issued and returned successfully before the second was issued
SucceededBefore(first, second) ==
    \E i, j \in 1..Len(calls) :
        /\ i < j
        /\ calls[i] = first
        /\ i \notin failed
        /\ calls[j] = second

AccessChecks == {"describe-images", "describe-launch-templates",
                 "describe-auto-scaling-groups"}

\* C23: the version is created only after the image, template and fleet
\* checks passed, the fleet is updated only after the version was created,
\* the rollout is started only after the fleet update returned successfully,
\* the deployment file is written only after the rollout was started; a run
\* whose fleet update failed starts no rollout.
C23_MutatingCallsInOrder ==
    /\ Issued("create-launch-template-version") =>
           /\ \A c \in AccessChecks : SucceededBefore(c, "create-launch-template-version")
           /\ AMI_STATE = "available"
    /\ Issued("update-auto-scaling-group") =>
           /\ SucceededBefore("create-launch-template-version", "update-auto-scaling-group")
           /\ NEW_VERSION # 0
    /\ Issued("start-instance-refresh") =>
           /\ SucceededBefore("update-auto-scaling-group", "start-instance-refresh")
           /\ SucceededBefore("create-launch-template-version", "start-instance-refresh")
    /\ audit # {} =>
           /\ Issued("start-instance-refresh")
           /\ ~CallFailed("start-instance-refresh")
           /\ \A c \in MutatingCalls : Issued(c) /\ ~CallFailed(c)
    /\ CallFailed("update-auto-scaling-group") =>
           /\ ~Issued("start-instance-refresh")
           /\ rollouts = 0
           /\ audit = {}

C23_Witness ==
    /\ audit # {}
    /\ pc = "done"
    /\ \A c \in MutatingCalls : Issued(c)
    /\ failed = {}
    /\ rollouts = 1

\* The command line has an unknown option, or lacks -a, -l or -g
InvalidInvocation ==
    \/ inv.kind = "unknown"
    \/ inv.kind = "ok" /\ (inv.a = "" \/ inv.l = "" \/ inv.g = "")

\* C24: a run with an unknown option or without an image id, template id or
\* fleet name ends with exit code 1, a run with --help with exit code 0, and
\* in both cases the run never reaches the dependency check and issues no
\* aws call.
C24_ValidationPrecedesCalls ==
    /\ InvalidInvocation =>
           /\ pc \in {"parse", "validate", "done"}
           /\ calls = <<>>
           /\ pc = "done" => (exitCode = 1 /\ outcome = "usage")
    /\ inv.kind = "help" =>
           /\ pc \in {"parse", "done"}
           /\ calls = <<>>
           /\ pc = "done" => (exitCode = 0 /\ outcome = "help")
    /\ (calls # <<>> \/ pc = "deps" \/ outcome = "deps") =>
           (inv.kind = "ok" /\ AMI_ID # "" /\ LAUNCH_TEMPLATE_ID # "" /\ ASG_NAME # "")

C24_Witness ==
    /\ inv.kind = "ok"
    /\ inv.a # ""
    /\ inv.l # ""
    /\ inv.g = ""
    /\ ~inv.deps
    /\ pc = "done"
    /\ exitCode = 1
    /\ lastLog = "Auto Scaling Group name is required"

====
